---------------------------- MODULE Spec2Model ----------------------------
(***************************************************************************)
(* Model of the cable-guide viewer's geometry scaling and re-baking.       *)
(*                                                                         *)
(* Three variants of the program are in the source tree:                   *)
(*   "dom"    the plain DOM program (src/src/App.tsx, lines 132-418):      *)
(*            globals mesh / baseGeometry, a range input, Reset, Export;   *)
(*   "react"  the React program (src/src/App.tsx lines 1-130 with          *)
(*            src/src/components/ThreeScene.tsx): parameters.depth and a   *)
(*            useEffect keyed on it;                                       *)
(*   "height" the React scene with height extrusion                        *)
(*            (src/unnamed/part_001): parameters.depth, parameters.height. *)
(*                                                                         *)
(* Numbers are JavaScript doubles modelled as exact extended rationals     *)
(* <<n, d>>: d > 0 is the finite value n/d in lowest terms, <<1,0>> is     *)
(* +Infinity, <<-1,0>> is -Infinity and <<0,0>> is NaN.  Rounding error    *)
(* of the binary representation is not modelled.                           *)
(*                                                                         *)
(* A geometry is an object on a heap (so that clone / alias / in-place     *)
(* mutation / dispose are what the code does); its data is the ordered     *)
(* position attribute.  Vertex normals and the cached bounding box are     *)
(* functions of the positions and are not stored.                          *)
(***************************************************************************)
EXTENDS Integers, Sequences, FiniteSets, TLC

(***************************************************************************)
(* Bounds of the model.                                                    *)
(***************************************************************************)
MaxOps == 3

(***************************************************************************)
(* Numbers.                                                                *)
(***************************************************************************)
Abs(a) == IF a < 0 THEN -a ELSE a

Sgn(a) == IF a < 0 THEN -1 ELSE IF a > 0 THEN 1 ELSE 0

RECURSIVE GCD(_, _)
GCD(a, b) == IF b = 0 THEN a ELSE GCD(b, a % b)

Norm(n, d) ==
    IF d = 0 THEN <<Sgn(n), 0>>
    ELSE LET g == GCD(Abs(n), Abs(d))
             s == Sgn(d)
         IN  <<(s * n) \div g, (s * d) \div g>>

R(n) == <<n, 1>>
PosInf == <<1, 0>>
NegInf == <<-1, 0>>
NaN == <<0, 0>>

IsNaN(a) == a = NaN
IsFinite(a) == a[2] > 0

RNeg(a) == <<-a[1], a[2]>>

RAdd(a, b) ==
    IF a[2] = 0 /\ b[2] = 0
    THEN (IF a = b THEN a ELSE NaN)
    ELSE Norm(a[1] * b[2] + b[1] * a[2], a[2] * b[2])

RSub(a, b) == RAdd(a, RNeg(b))

RMul(a, b) == Norm(a[1] * b[1], a[2] * b[2])

RDiv(a, b) == Norm(a[1] * b[2], a[2] * b[1])

RLt(a, b) ==
    IF IsNaN(a) \/ IsNaN(b) THEN FALSE
    ELSE IF a[2] = 0 /\ b[2] = 0 THEN a[1] < b[1]
    ELSE a[1] * b[2] < b[1] * a[2]

RGt(a, b) == RLt(b, a)
RLe(a, b) == ~IsNaN(a) /\ ~IsNaN(b) /\ ~RLt(b, a)
RGe(a, b) == RLe(b, a)

\* Math.min / Math.max: NaN if either argument is NaN.
RMin(a, b) == IF IsNaN(a) \/ IsNaN(b) THEN NaN ELSE IF RLt(b, a) THEN b ELSE a
RMax(a, b) == IF IsNaN(a) \/ IsNaN(b) THEN NaN ELSE IF RLt(a, b) THEN b ELSE a

RAbs(a) == <<Abs(a[1]), a[2]>>

\* Math.round: floor(x + 0.5); non-finite values are returned as they are.
MathRound(a) ==
    IF a[2] = 0 THEN a
    ELSE R((2 * a[1] + a[2]) \div (2 * a[2]))

Half == <<1, 2>>

(***************************************************************************)
(* Geometry data: a position attribute is a sequence of vertices, a vertex *)
(* a triple <<x, y, z>> of numbers.  Axes are numbered x = 1, y = 2, z = 3.*)
(***************************************************************************)
DEPTH_AXIS == 3

Axes == {1, 2, 3}

V(x, y, z) == <<R(x), R(y), R(z)>>

\* Box3.setFromBufferAttribute / computeBoundingBox: the box starts empty
\* (min = +Infinity, max = -Infinity) and is expanded by every vertex.
RECURSIVE BoxMin(_, _)
BoxMin(verts, axis) ==
    IF verts = << >> THEN PosInf
    ELSE RMin(BoxMin(Tail(verts), axis), Head(verts)[axis])

RECURSIVE BoxMax(_, _)
BoxMax(verts, axis) ==
    IF verts = << >> THEN NegInf
    ELSE RMax(BoxMax(Tail(verts), axis), Head(verts)[axis])

\* max - min along one axis.
Extent(verts, axis) == RSub(BoxMax(verts, axis), BoxMin(verts, axis))

\* Matrix4.makeScale(sx, sy, sz) applied by BufferGeometry.applyMatrix4.
ScaleVerts(verts, sx, sy, sz) ==
    [i \in 1..Len(verts) |->
        <<RMul(verts[i][1], sx), RMul(verts[i][2], sy), RMul(verts[i][3], sz)>>]

\* BufferGeometry.translate(tx, ty, tz).
TranslateVerts(verts, tx, ty, tz) ==
    [i \in 1..Len(verts) |->
        <<RAdd(verts[i][1], tx), RAdd(verts[i][2], ty), RAdd(verts[i][3], tz)>>]

\* target / current extent.  scaleFactorInverted is the faulty variant with
\* the operands exchanged, which the properties must reject.
scaleFactorInverted(target, cur) == RDiv(cur, target)

scaleFactor(target, cur) == RDiv(target, cur)

\* The diagonal of the scale matrix: 1 on the other axes, scale on axis.
\* ScaleVectorAlsoX is the faulty variant that scales x as well.
ScaleVectorAlsoX(axis, scale) == [a \in Axes |-> IF a \in {axis, 1} THEN scale ELSE R(1)]

ScaleVector(axis, scale) == [a \in Axes |-> IF a = axis THEN scale ELSE R(1)]

(***************************************************************************)
(* The heap of BufferGeometry objects.  An id is an index into the heap,   *)
(* 0 is null.  disposed records that dispose() was called on the object.   *)
(***************************************************************************)
NullId == 0

Verts(h, id) == IF id = NullId THEN << >> ELSE h[id].verts

\* new BufferGeometry holding verts; its id is Len(h) + 1.
Alloc(h, verts) == Append(h, [verts |-> verts, disposed |-> FALSE])

\* geometry.clone(): a new object with a deep copy of the attributes.
\* CloneAlias is the faulty variant that hands back the object itself.
CloneAlias(h, id) == [heap |-> h, id |-> id]

CloneGeometry(h, id) == [heap |-> Alloc(h, Verts(h, id)), id |-> Len(h) + 1]

\* geometry.dispose(): marks the object released; its data stays readable.
\* DisposeNothing is the faulty variant that releases nothing.
DisposeNothing(h, id) == h

DisposeGeometry(h, id) ==
    IF id = NullId THEN h ELSE [h EXCEPT ![id].disposed = TRUE]

\* The geometry every re-bake starts from: the base geometry.
\* cloneSourceDisplayed is the faulty variant that starts from the geometry
\* currently on the mesh.
cloneSourceDisplayed(m, base) == m.geometry

cloneSource(m, base) == base

\* The geometry a re-bake disposes: the one on the mesh before the new one
\* is assigned.  releasedAfterAssign is the faulty variant that disposes
\* after the assignment, and so releases the new geometry.
releasedAfterAssign(old, new) == new

releasedGeometry(old, new) == old

\* In-place replacement of the position data of object id.
SetVerts(h, id, verts) ==
    IF id = NullId THEN h ELSE [h EXCEPT ![id].verts = verts]

\* geometry.applyMatrix4(makeScale(s[1], s[2], s[3])), in place.
ApplyScale(h, id, s) == SetVerts(h, id, ScaleVerts(Verts(h, id), s[1], s[2], s[3]))

(***************************************************************************)
(* Inputs.  The asset is the content of the fixed STL file as parsed by    *)
(* STLLoader; the parameter values are the ones the controls can deliver.  *)
(***************************************************************************)
DepthMin == 10
DepthMax == 300
DefaultDepth == 10

AssetBracket ==
    << V(0, 0, 0), V(40, 0, 50), V(0, 20, 50), V(40, 20, 0), V(20, 20, 25), V(20, 4, 10) >>

AssetOdd == << V(1, 2, 3), V(4, 8, 28), V(4, 2, 3), V(2, 7, 10) >>

AssetFlat == << V(0, 0, 7), V(10, 0, 7), V(0, 10, 7) >>

AssetEmpty == << >>

Assets == {AssetBracket, AssetOdd, AssetFlat, AssetEmpty}

Variants == {"dom", "react", "height"}

\* Values a slider bounded by min / max can deliver.
SliderValues == {10, 100, 300}

\* Values the number input can hold while the user types (0: cleared field;
\* a typed minus sign gives a negative number).
TypedValues == {0, -5, 400}

\* Values of the height parameter handed to the height-extrusion scene.
HeightValues == {6, 30}

\* Values of the depth parameter handed to the height-extrusion scene.
HeightDepthValues == {10, 50}

VARIABLES
    variant,        \* which of the three programs runs
    asset,          \* the parsed content of /model/4040_cableguide.stl
    loadState,      \* "idle", "fetching", "reading", "done", "failed"
    heap,           \* the BufferGeometry objects created so far
    mesh,           \* [isSet, geometry, positionY]: the display mesh, the id
                    \* of its geometry and its position along y
    baseGeometry,   \* id of the original unscaled geometry, NullId if unset
    depth,          \* parameters.depth (React programs)
    height,         \* parameters.height (height-extrusion scene)
    depthRange,     \* depthRange.value (DOM program)
    depthValue,     \* depthValue output (DOM program)
    log,            \* console.error / console.warn calls, in order
    downloads,      \* files offered for download, in order
    installedIds,   \* ids that have been assigned to mesh.geometry
    last,           \* what the most recent handler did
    ops             \* number of user events handled

vars ==
    <<variant, asset, loadState, heap, mesh, baseGeometry, depth, height,
      depthRange, depthValue, log, downloads, installedIds, last, ops>>

NoMesh == [isSet |-> FALSE, geometry |-> NullId, positionY |-> R(0)]

\* The record kept in last:
\*   op          the handler: "depth", "reset", "blur", "export", "none"
\*   target      the target length the handler was given
\*   ran         the handler passed its mesh guard and measured the base extent
\*   divided     a division by the measured extent was performed
\*   divisor     the measured extent
\*   factor      the scale factor computed
\*   applied     a geometry scaled to target was installed
\*   installed   a geometry was assigned to mesh.geometry
\*   degenerate  the measured extent was <= 0
\*   reported    the handler wrote to the console
\*   exported    the handler offered a file for download
NoCall ==
    [op |-> "none", target |-> R(0), ran |-> FALSE, divided |-> FALSE,
     divisor |-> R(0), factor |-> R(1), applied |-> FALSE,
     installed |-> FALSE, degenerate |-> FALSE, reported |-> FALSE,
     exported |-> FALSE]

Init ==
    /\ variant \in Variants
    /\ asset \in Assets
    /\ loadState = "idle"
    /\ heap = << >>
    /\ mesh = NoMesh
    /\ baseGeometry = NullId
    /\ depth = R(DefaultDepth)
    /\ height \in {R(h) : h \in IF variant = "height" THEN HeightValues ELSE {6}}
    /\ depthRange = R(DepthMin)
    /\ depthValue = R(0)
    /\ log = << >>
    /\ downloads = << >>
    /\ installedIds = {}
    /\ last = NoCall
    /\ ops = 0

(***************************************************************************)
(* DOM program: measuring and baking.                                      *)
(***************************************************************************)
\* computeAxisLengths: measures a clone, which is never disposed.
computeAxisLengths(h, g) ==
    LET c == CloneGeometry(h, g)
    IN  [heap |-> c.heap,
         lens |-> [a \in Axes |-> Extent(Verts(c.heap, c.id), a)]]

updateCurrentDepthDisplay(h, g, axis) ==
    LET m == computeAxisLengths(h, g)
    IN  [heap |-> m.heap, depthValue |-> MathRound(m.lens[axis])]

\* getScaleForTargetLength.  getScaleUnguarded is the faulty variant without
\* the cur > 0 test.
getScaleUnguarded(h, g, axis, target) ==
    LET m == computeAxisLengths(h, g)
        cur == m.lens[axis]
    IN  [heap |-> m.heap, cur |-> cur, divided |-> TRUE,
         scale |-> scaleFactor(target, cur)]

getScaleForTargetLength(h, g, axis, target) ==
    LET m == computeAxisLengths(h, g)
        cur == m.lens[axis]
    IN  [heap |-> m.heap, cur |-> cur, divided |-> RGt(cur, R(0)),
         scale |-> IF RGt(cur, R(0)) THEN scaleFactor(target, cur) ELSE R(1)]

\* bakeScaleAlongAxis on the state w = [heap, mesh, depthValue, installedIds]
\* with the global baseGeometry = base.
bakeScaleAlongAxis(w, base, axis, scale) ==
    IF ~w.mesh.isSet \/ base = NullId THEN w
    ELSE LET c == CloneGeometry(w.heap, cloneSource(w.mesh, base))
             h1 == ApplyScale(c.heap, c.id, ScaleVector(axis, scale))
             h2 == DisposeGeometry(h1, releasedGeometry(w.mesh.geometry, c.id))
             d == updateCurrentDepthDisplay(h2, c.id, axis)
         IN  [heap |-> d.heap,
              mesh |-> [w.mesh EXCEPT !.geometry = c.id],
              depthValue |-> d.depthValue,
              installedIds |-> w.installedIds \cup {c.id}]

\* clearModel on [heap, mesh, baseGeometry].
clearModel(w) ==
    LET h1 == IF w.mesh.isSet THEN DisposeGeometry(w.heap, w.mesh.geometry)
              ELSE w.heap
    IN  [heap |-> DisposeGeometry(h1, w.baseGeometry),
         mesh |-> NoMesh, baseGeometry |-> NullId]

\* Centre of the bounding box as loadSTLFromArrayBuffer computes it.
BoxCenter(verts) ==
    [a \in Axes |-> RMul(RAdd(BoxMin(verts, a), BoxMax(verts, a)), Half)]

\* BufferGeometry.center(): Box3.getCenter gives (0,0,0) for an empty box.
GeometryCenter(verts) ==
    IF verts = << >> THEN [a \in Axes |-> R(0)] ELSE BoxCenter(verts)

\* The translation of the geometry by minus its box centre.  CenterVertsSkipped
\* is the faulty variant that leaves the geometry where the file put it.
CenterVertsSkipped(verts, c) == verts

CenterVerts(verts, c) == TranslateVerts(verts, RNeg(c[1]), RNeg(c[2]), RNeg(c[3]))

Clamp(v, lo, hi) == RMin(RMax(v, lo), hi)

(***************************************************************************)
(* React programs: the scaling effects of the scene component.  An effect  *)
(* result is [heap, geometry, call]: the heap after it, the id on          *)
(* mesh.geometry after it, and what it did.                                *)
(***************************************************************************)
EffectSkipped(h, m, target) ==
    [heap |-> h, geometry |-> m.geometry,
     call |-> [NoCall EXCEPT !.target = target]]

EffectDegenerate(h, m, target, cur) ==
    [heap |-> h, geometry |-> m.geometry,
     call |-> [NoCall EXCEPT !.target = target, !.ran = TRUE,
                             !.divisor = cur,
                             !.degenerate = RLe(cur, R(0))]]

\* The guard at the head of the effects: mesh and base geometry are set.
\* sceneReadyAlways is the faulty variant without it.
sceneReadyAlways(m, base) == TRUE

sceneReady(m, base) == m.isSet /\ base # NullId

\* ThreeScene.tsx, useEffect keyed on parameters.depth.
depthEffect(h, m, base, targetDepth) ==
    IF ~sceneReady(m, base) THEN EffectSkipped(h, m, targetDepth)
    ELSE LET currentDepth == Extent(Verts(h, base), DEPTH_AXIS)
         IN  IF RLe(currentDepth, R(0))
             THEN EffectDegenerate(h, m, targetDepth, currentDepth)
             ELSE LET scale == scaleFactor(targetDepth, currentDepth)
                      c == CloneGeometry(h, cloneSource(m, base))
                      h1 == ApplyScale(c.heap, c.id, <<R(1), R(1), scale>>)
                      h2 == DisposeGeometry(h1, releasedGeometry(m.geometry, c.id))
                  IN  [heap |-> h2, geometry |-> c.id,
                       call |-> [NoCall EXCEPT
                                   !.target = targetDepth, !.ran = TRUE,
                                   !.divided = TRUE, !.divisor = currentDepth,
                                   !.factor = scale, !.applied = TRUE,
                                   !.installed = TRUE]]

\* The extrusion loop of the height effect: vertices above yThreshold and
\* farther than a quarter of the x range from centerX move up.
\* ExtrudeAllAbove is the faulty variant without the extremity test.
ExtrudeAllAbove(verts, yThreshold, centerX, xRange, extrusionHeight) ==
    [i \in 1..Len(verts) |->
        IF RGt(verts[i][2], yThreshold)
        THEN <<verts[i][1], RAdd(verts[i][2], extrusionHeight), verts[i][3]>>
        ELSE verts[i]]

ExtrudeVerts(verts, yThreshold, centerX, xRange, extrusionHeight) ==
    [i \in 1..Len(verts) |->
        LET x == verts[i][1]
            y == verts[i][2]
            isAboveThreshold == RGt(y, yThreshold)
            distanceFromCenter == RAbs(RSub(x, centerX))
            isAtExtremity == RGt(distanceFromCenter, RMul(xRange, <<1, 4>>))
        IN  IF isAboveThreshold /\ isAtExtremity
            THEN <<x, RAdd(y, extrusionHeight), verts[i][3]>>
            ELSE verts[i]]

\* The selective height scaling applied to the positions after depth scaling.
HeightExtrusion(verts, heightScale) ==
    LET minY == BoxMin(verts, 2)
        maxY == BoxMax(verts, 2)
        yRange == RSub(maxY, minY)
        yThreshold == RAdd(minY, RMul(yRange, <<11, 20>>))
        extrusionHeight == RMul(RSub(heightScale, R(1)), RSub(maxY, yThreshold))
        xRange == RSub(BoxMax(verts, 1), BoxMin(verts, 1))
        centerX == RMul(RAdd(BoxMin(verts, 1), BoxMax(verts, 1)), Half)
    IN  IF RGt(extrusionHeight, R(0))
        THEN ExtrudeVerts(verts, yThreshold, centerX, xRange, extrusionHeight)
        ELSE verts

\* part_001, useEffect keyed on parameters.depth and parameters.height.
heightEffect(h, m, base, targetDepth, targetHeight) ==
    IF ~sceneReady(m, base) THEN EffectSkipped(h, m, targetDepth)
    ELSE LET currentDepth == Extent(Verts(h, base), DEPTH_AXIS)
             currentHeight == Extent(Verts(h, base), 2)
         IN  IF RLe(currentDepth, R(0)) \/ RLe(currentHeight, R(0))
             THEN EffectDegenerate(h, m, targetDepth, currentDepth)
             ELSE LET depthScale == scaleFactor(targetDepth, currentDepth)
                      heightScale == scaleFactor(targetHeight, currentHeight)
                      c == CloneGeometry(h, cloneSource(m, base))
                      h1 == IF depthScale # R(1)
                            THEN ApplyScale(c.heap, c.id, <<R(1), R(1), depthScale>>)
                            ELSE c.heap
                      h2 == IF heightScale # R(1)
                            THEN SetVerts(h1, c.id,
                                          HeightExtrusion(Verts(h1, c.id), heightScale))
                            ELSE h1
                      h3 == DisposeGeometry(h2, releasedGeometry(m.geometry, c.id))
                  IN  [heap |-> h3, geometry |-> c.id,
                       call |-> [NoCall EXCEPT
                                   !.target = targetDepth, !.ran = TRUE,
                                   !.divided = TRUE, !.divisor = currentDepth,
                                   !.factor = depthScale,
                                   !.applied = TRUE,
                                   !.installed = TRUE]]

\* The effect the running program has.
sceneEffect(h, m, base, targetDepth, targetHeight) ==
    IF variant = "height"
    THEN heightEffect(h, m, base, targetDepth, targetHeight)
    ELSE depthEffect(h, m, base, targetDepth)

(***************************************************************************)
(* Asset load: the only asynchronous part.  Each await is a step at which  *)
(* user events can be handled.                                             *)
(***************************************************************************)
UserState == <<depth, height, depthRange, ops>>
SceneState == <<heap, mesh, baseGeometry, installedIds, depthValue>>

\* requestAnimationFrame callback / mount effect: the fetch is issued.  In
\* the React programs the scaling effect also runs at mount, with no mesh.
StartLoad ==
    /\ loadState = "idle"
    /\ loadState' = "fetching"
    /\ UNCHANGED <<variant, asset, log, downloads, last, UserState, SceneState>>

\* fetch resolved with res.ok.
FetchOk ==
    /\ loadState = "fetching"
    /\ loadState' = "reading"
    /\ UNCHANGED <<variant, asset, log, downloads, last, UserState, SceneState>>

\* fetch rejected or !res.ok: the catch block logs the error.
FetchFail ==
    /\ loadState = "fetching"
    /\ loadState' = "failed"
    /\ log' = Append(log, "error: fetch")
    /\ UNCHANGED <<variant, asset, downloads, last, UserState, SceneState>>

\* arrayBuffer() rejected or the parser threw: the catch block logs.
ReadFail ==
    /\ loadState = "reading"
    /\ loadState' = "failed"
    /\ log' = Append(log, "error: read")
    /\ UNCHANGED <<variant, asset, downloads, last, UserState, SceneState>>

\* DOM program: loadSTLFromArrayBuffer after the buffer arrived.
LoadInstallDom ==
    /\ variant = "dom"
    /\ loadState = "reading"
    /\ loadState' = "done"
    /\ LET geo == Len(heap) + 1
           h0 == Alloc(heap, asset)
           h1 == SetVerts(h0, geo, CenterVerts(asset, BoxCenter(asset)))
           cl == clearModel([heap |-> h1, mesh |-> mesh,
                             baseGeometry |-> baseGeometry])
           c == CloneGeometry(cl.heap, geo)
           d == updateCurrentDepthDisplay(c.heap, geo, DEPTH_AXIS)
           m == computeAxisLengths(d.heap, geo)
           current == Clamp(MathRound(m.lens[DEPTH_AXIS]), R(DepthMin), R(DepthMax))
       IN  /\ heap' = m.heap
           /\ mesh' = [isSet |-> TRUE, geometry |-> geo, positionY |-> R(0)]
           /\ baseGeometry' = c.id
           /\ installedIds' = installedIds \cup {geo}
           /\ depthRange' = current
           /\ depthValue' = current
    /\ UNCHANGED <<variant, asset, log, downloads, last, depth, height, ops>>

\* mesh.position.y after loadSTL: the height-extrusion scene lifts the mesh
\* by yOffset + 2, yOffset = -(bbox.min.y) of the geometry before centring;
\* the depth-only scene leaves the position at 0.
meshPositionY(verts) ==
    IF variant = "height" THEN RAdd(RNeg(BoxMin(verts, 2)), R(2)) ELSE R(0)

\* React programs: loadSTL after the buffer arrived.
LoadInstallReact ==
    /\ variant \in {"react", "height"}
    /\ loadState = "reading"
    /\ loadState' = "done"
    /\ LET geo == Len(heap) + 1
           h0 == Alloc(heap, asset)
           h1 == SetVerts(h0, geo, CenterVerts(asset, GeometryCenter(asset)))
           h2 == IF mesh.isSet THEN DisposeGeometry(h1, mesh.geometry) ELSE h1
           c == CloneGeometry(h2, geo)
       IN  /\ heap' = c.heap
           /\ mesh' = [isSet |-> TRUE, geometry |-> geo,
                       positionY |-> meshPositionY(asset)]
           /\ baseGeometry' = c.id
           /\ installedIds' = installedIds \cup {geo}
    /\ UNCHANGED <<variant, asset, log, downloads, last, UserState, depthValue>>

(***************************************************************************)
(* DOM program: user events.                                               *)
(***************************************************************************)
\* The guard at the head of the depth listener.  depthListenerAlways is the
\* faulty variant without it.
depthListenerAlways(m) == TRUE

depthListenerReady(m) == m.isSet

\* The geometry the depth listener measures: baseGeometry ?? mesh.geometry.
\* scaleReferenceDisplayed is the faulty variant that always measures the
\* geometry on the mesh.
scaleReferenceDisplayed(m, base) == m.geometry

scaleReference(m, base) == IF base # NullId THEN base ELSE m.geometry

\* 'input' on the depth range: the browser keeps the value within min / max.
DepthInput(v) ==
    /\ variant = "dom"
    /\ ops < MaxOps
    /\ ops' = ops + 1
    /\ depthRange' = R(v)
    /\ IF ~depthListenerReady(mesh)
       THEN /\ last' = [NoCall EXCEPT !.op = "depth", !.target = R(v)]
            /\ UNCHANGED SceneState
       ELSE LET target == R(v)
                ref == scaleReference(mesh, baseGeometry)
                s == getScaleForTargetLength(heap, ref, DEPTH_AXIS, target)
                b == bakeScaleAlongAxis(
                         [heap |-> s.heap, mesh |-> mesh, depthValue |-> target,
                          installedIds |-> installedIds],
                         baseGeometry, DEPTH_AXIS, s.scale)
            IN  /\ heap' = b.heap
                /\ mesh' = b.mesh
                /\ depthValue' = b.depthValue
                /\ installedIds' = b.installedIds
                /\ baseGeometry' = baseGeometry
                /\ last' = [op |-> "depth", target |-> target, ran |-> TRUE,
                            divided |-> s.divided, divisor |-> s.cur,
                            factor |-> s.scale,
                            applied |-> (b.mesh # mesh),
                            installed |-> (b.mesh # mesh),
                            degenerate |-> ~RGt(s.cur, R(0)),
                            reported |-> FALSE,
                            exported |-> FALSE]
    /\ UNCHANGED <<variant, asset, loadState, log, downloads, depth, height>>

\* 'click' on Reset.
ResetClickDom ==
    /\ variant = "dom"
    /\ ops < MaxOps
    /\ ops' = ops + 1
    /\ IF ~mesh.isSet \/ baseGeometry = NullId
       THEN /\ last' = [NoCall EXCEPT !.op = "reset"]
            /\ UNCHANGED SceneState
       ELSE LET h1 == DisposeGeometry(heap, mesh.geometry)
                c == CloneGeometry(h1, baseGeometry)
                d == updateCurrentDepthDisplay(c.heap, c.id, DEPTH_AXIS)
            IN  /\ heap' = d.heap
                /\ mesh' = [mesh EXCEPT !.geometry = c.id]
                /\ depthValue' = d.depthValue
                /\ installedIds' = installedIds \cup {c.id}
                /\ baseGeometry' = baseGeometry
                /\ last' = [NoCall EXCEPT !.op = "reset", !.installed = TRUE]
    /\ UNCHANGED <<variant, asset, loadState, log, downloads, depth, height,
                   depthRange>>

\* exporter.parse(mesh): the encoder is handed the mesh, that is the geometry
\* on it now and the mesh position (which the encoder adds to every vertex
\* it writes).  handedBaseGeometry is the faulty variant that hands the
\* base geometry.
handedBaseGeometry(h, m, base) ==
    [geometry |-> base, verts |-> Verts(h, base), positionY |-> m.positionY]

handedToEncoder(h, m, base) ==
    [geometry |-> m.geometry, verts |-> Verts(h, m.geometry),
     positionY |-> m.positionY]

\* 'click' on Export: exportCurrentMeshAsSTL.
ExportClickDom ==
    /\ variant = "dom"
    /\ ops < MaxOps
    /\ ops' = ops + 1
    /\ last' = [NoCall EXCEPT !.op = "export", !.exported = mesh.isSet]
    /\ downloads' =
          IF ~mesh.isSet THEN downloads
          ELSE Append(downloads,
                      [handed |-> handedToEncoder(heap, mesh, baseGeometry),
                       type |-> "application/sla",
                       name |-> "auriga-simracing-cable-guide-<now>.stl"])
    /\ UNCHANGED <<variant, asset, loadState, log, depth, height, depthRange,
                   SceneState>>

(***************************************************************************)
(* React programs: user events.  A state update re-renders; the scaling    *)
(* effect runs after the render iff a value in its dependency list differs *)
(* from the previous render's.                                             *)
(***************************************************************************)
\* The dependency list of the scaling effect: it runs after a render iff
\* parameters.depth (or parameters.height) differs from the render before.
\* dependenciesIgnored is the faulty variant that runs it after every render.
dependenciesIgnored(prevDepth, prevHeight, d, h) == TRUE

dependenciesChanged(prevDepth, prevHeight, d, h) ==
    d # prevDepth \/ h # prevHeight

\* setParameters to (d, h) followed by the render and its effects.
SetParameters(opName, d, h) ==
    /\ depth' = d
    /\ height' = h
    /\ IF ~dependenciesChanged(depth, height, d, h)
       THEN /\ last' = [NoCall EXCEPT !.op = opName, !.target = d]
            /\ UNCHANGED <<heap, mesh, baseGeometry, installedIds>>
       ELSE LET e == sceneEffect(heap, mesh, baseGeometry, d, h)
            IN  /\ heap' = e.heap
                /\ mesh' = [mesh EXCEPT !.geometry = e.geometry]
                /\ installedIds' = IF e.call.installed
                                   THEN installedIds \cup {e.geometry}
                                   ELSE installedIds
                /\ baseGeometry' = baseGeometry
                /\ last' = [e.call EXCEPT !.op = opName]
    /\ UNCHANGED <<variant, asset, loadState, log, downloads, depthRange,
                   depthValue>>

\* Slider onValueChange: the slider delivers values within min / max.
SliderChange(v) ==
    /\ variant = "react"
    /\ ops < MaxOps
    /\ ops' = ops + 1
    /\ SetParameters("depth", R(v), height)

\* Number input onChange: any number typed is stored.
InputChange(v) ==
    /\ variant = "react"
    /\ ops < MaxOps
    /\ ops' = ops + 1
    /\ SetParameters("depth", R(v), height)

\* The body of onBlur: whether it calls updateParameter, and with what.
\* blurUpdateLowerOnly is the faulty variant without the upper test.
blurUpdateLowerOnly(value) ==
    IF RLt(value, R(DepthMin)) THEN [update |-> TRUE, value |-> R(DepthMin)]
    ELSE [update |-> FALSE, value |-> value]

blurUpdate(value) ==
    IF RLt(value, R(DepthMin)) THEN [update |-> TRUE, value |-> R(DepthMin)]
    ELSE IF RGt(value, R(DepthMax)) THEN [update |-> TRUE, value |-> R(DepthMax)]
    ELSE [update |-> FALSE, value |-> value]

\* Number input onBlur: clamps the value shown, which is parameters.depth.
InputBlur ==
    /\ variant = "react"
    /\ ops < MaxOps
    /\ ops' = ops + 1
    /\ LET u == blurUpdate(depth)
       IN  IF u.update THEN SetParameters("blur", u.value, height)
           ELSE /\ last' = [NoCall EXCEPT !.op = "blur", !.target = depth]
                /\ UNCHANGED <<variant, asset, loadState, log, downloads,
                               depth, height, depthRange, SceneState>>

\* Reset button onClick: setParameters({ depth: 10 }).
ResetClickReact ==
    /\ variant = "react"
    /\ ops < MaxOps
    /\ ops' = ops + 1
    /\ SetParameters("reset", R(DefaultDepth), height)

\* Height-extrusion scene: its parent hands it new parameters.
ParametersChange(d, h) ==
    /\ variant = "height"
    /\ ops < MaxOps
    /\ ops' = ops + 1
    /\ SetParameters("depth", R(d), R(h))

\* Download STL: exportSTL of the scene.
ExportClickReact ==
    /\ variant \in {"react", "height"}
    /\ ops < MaxOps
    /\ ops' = ops + 1
    /\ last' = [NoCall EXCEPT !.op = "export", !.reported = ~mesh.isSet,
                            !.exported = mesh.isSet]
    /\ IF ~mesh.isSet
       THEN /\ log' = Append(log, "warn: No mesh to export")
            /\ UNCHANGED downloads
       ELSE /\ downloads' = Append(downloads,
                      [handed |-> handedToEncoder(heap, mesh, baseGeometry),
                       type |-> "application/sla",
                       name |-> "auriga_cable_guide.stl"])
            /\ UNCHANGED log
    /\ UNCHANGED <<variant, asset, loadState, depth, height, depthRange,
                   SceneState>>

Next ==
    \/ StartLoad
    \/ FetchOk
    \/ FetchFail
    \/ ReadFail
    \/ LoadInstallDom
    \/ LoadInstallReact
    \/ \E v \in SliderValues : DepthInput(v)
    \/ ResetClickDom
    \/ ExportClickDom
    \/ \E v \in SliderValues : SliderChange(v)
    \/ \E v \in TypedValues : InputChange(v)
    \/ InputBlur
    \/ ResetClickReact
    \/ \E d \in HeightDepthValues, h \in HeightValues : ParametersChange(d, h)
    \/ ExportClickReact

Spec == Init /\ [][Next]_vars

(***************************************************************************)
(* Properties.                                                             *)
(***************************************************************************)
Loaded == loadState = "done"

\* The geometry as it was installed at load: the asset centred at the origin.
LoadedVerts ==
    CenterVerts(asset, IF variant = "dom" THEN BoxCenter(asset)
                       ELSE GeometryCenter(asset))

Displayed == Verts(heap, mesh.geometry)

BaseVerts == Verts(heap, baseGeometry)

InDomain(t) == RGe(t, R(DepthMin)) /\ RLe(t, R(DepthMax))

SameExtent(va, vb, axis) == Extent(va, axis) = Extent(vb, axis)

\* The geometry derived from the geometry as loaded, for a target depth t
\* and (height-extrusion scene only) a target height ht.
DerivedFromLoaded(t, ht) ==
    LET curZ == Extent(LoadedVerts, DEPTH_AXIS)
        curY == Extent(LoadedVerts, 2)
        factor == IF RGt(curZ, R(0)) THEN RDiv(t, curZ) ELSE R(1)
        scaled == ScaleVerts(LoadedVerts, R(1), R(1), factor)
    IN  IF variant = "height"
        THEN HeightExtrusion(scaled, RDiv(ht, curY))
        ELSE scaled

\* C1: once the asset is loaded and a depth change to a target T within
\* [10, 300] has been applied to a base geometry of positive depth extent,
\* the displayed geometry's extent along the depth axis equals T.
C1_ExtentEqualsTarget ==
    (/\ Loaded
     /\ last.applied
     /\ InDomain(last.target)
     /\ RGt(Extent(LoadedVerts, DEPTH_AXIS), R(0)))
    => Extent(Displayed, DEPTH_AXIS) = last.target

\* Base extent 50, target 100: factor 2, displayed extent 100.
C1_Witness ==
    /\ Loaded
    /\ last.applied
    /\ asset = AssetBracket
    /\ last.target = R(100)
    /\ last.factor = R(2)
    /\ Extent(Displayed, DEPTH_AXIS) = R(100)

\* C2: the displayed geometry is always re-derived from the base geometry:
\* after any sequence of applied depth changes and resets, the geometry an
\* applied depth change leaves on the mesh is the one obtained by applying
\* its target alone to the geometry as loaded.
C2_DerivedFromBase ==
    (Loaded /\ last.applied) => Displayed = DerivedFromLoaded(last.target, height)

\* A third event applied a target different from the loaded depth, after
\* other geometries had been on the mesh.
C2_Witness ==
    /\ Loaded
    /\ last.applied
    /\ ops >= 3
    /\ Cardinality(installedIds) >= 3
    /\ Displayed # LoadedVerts

\* C3: after Reset the displayed geometry has, along every axis, the extent
\* of the base geometry as it was at initial load.
C3_ResetRestoresBase ==
    (Loaded /\ last.op = "reset")
    => \A a \in Axes : SameExtent(Displayed, LoadedVerts, a)

\* C4 (as stated): a geometry produced by a parameter change has the
\* extents of the base geometry along X and Y.
C4_OtherAxesUnchanged ==
    (Loaded /\ last.applied)
    => /\ SameExtent(Displayed, LoadedVerts, 1)
       /\ SameExtent(Displayed, LoadedVerts, 2)

\* C4 (amended): a geometry produced by a parameter change has the X extent
\* of the base geometry; it has the Y extent of the base geometry in the
\* depth-only programs and, in the height-extrusion scene, whenever the
\* target height does not exceed the base height; in every case its Y extent
\* is not below the base geometry's.
C4_OtherAxesUnchangedUnlessExtruded ==
    (Loaded /\ last.applied)
    => /\ SameExtent(Displayed, LoadedVerts, 1)
       /\ (variant # "height" \/ RLe(height, Extent(LoadedVerts, 2)))
             => SameExtent(Displayed, LoadedVerts, 2)
       /\ RGe(Extent(Displayed, 2), Extent(LoadedVerts, 2))

\* A depth change that altered the depth extent and left X and Y alone.
C4_Witness ==
    /\ Loaded
    /\ last.applied
    /\ ~SameExtent(Displayed, LoadedVerts, DEPTH_AXIS)
    /\ SameExtent(Displayed, LoadedVerts, 1)
    /\ SameExtent(Displayed, LoadedVerts, 2)
    /\ variant \in {"dom", "react"}

\* C5: the target that reaches the scale computation is within [10, 300].
C5_TargetInDomain ==
    last.ran => InDomain(last.target)

\* C6: with a base extent <= 0 along the scale axis no division by that
\* extent is performed and no non-finite factor is applied: the factor is 1
\* or the scale step is skipped.
C6_NoDegenerateDivision ==
    /\ last.divided => RGt(last.divisor, R(0))
    /\ last.installed => IsFinite(last.factor)
    /\ (last.ran /\ last.degenerate)
          => (~last.divided /\ (last.factor = R(1) \/ ~last.installed))

\* A depth change was handled on a base geometry of extent <= 0.
C6_Witness ==
    /\ Loaded
    /\ last.op = "depth"
    /\ last.ran
    /\ last.degenerate
    /\ ~RGt(Extent(BaseVerts, DEPTH_AXIS), R(0))

\* C7: a scale operation requested on a base geometry of extent <= 0 is
\* reported to the caller or the log.
C7_DegenerateReported ==
    (last.ran /\ last.degenerate) => last.reported

\* C8: once set at load, the base geometry is never replaced and its vertex
\* data never changes: it is the geometry as loaded in every later state.
C8_BaseUnchanged ==
    /\ [](Loaded => (baseGeometry # NullId /\ BaseVerts = LoadedVerts))
    /\ [][baseGeometry # NullId
            => /\ baseGeometry' = baseGeometry
               /\ Verts(heap', baseGeometry') = Verts(heap, baseGeometry)]_vars

\* Depth changes were applied and the displayed geometry differs from the base.
C8_Witness ==
    /\ Loaded
    /\ ops >= 2
    /\ last.applied
    /\ Displayed # BaseVerts
    /\ BaseVerts = LoadedVerts

Live == {i \in 1..Len(heap) : ~heap[i].disposed}

\* C9 (as stated): the number of geometries created and not yet released is
\* at most two, the base and the one displayed.
C9_LiveBounded ==
    Cardinality(Live) <= 2

\* C9 (amended): every geometry that has been on the mesh, other than the
\* one on it now, has been disposed, so at most one installed geometry is
\* not released; in the React programs the geometries created and not
\* released are at most the base and the one displayed.
C9_PreviousReleased ==
    /\ \A id \in installedIds : id # mesh.geometry => heap[id].disposed
    /\ Cardinality(installedIds \cap Live) <= 1
    /\ variant # "dom" => Cardinality(Live) <= 2

\* Three geometries have been on the mesh.
C9_Witness ==
    /\ Loaded
    /\ Cardinality(installedIds) >= 3
    /\ Cardinality(installedIds \cap Live) = 1

\* C10: while the asset load has not completed, no event scales or installs
\* anything: mesh and base geometry are unset, no geometry exists, nothing
\* was measured and nothing is offered for download.
C10_NoScalingBeforeLoad ==
    ~Loaded
    => /\ ~mesh.isSet
       /\ baseGeometry = NullId
       /\ heap = << >>
       /\ installedIds = {}
       /\ downloads = << >>
       /\ ~last.ran
       /\ ~last.installed

\* A depth change arrived while the fetch was pending.
C10_Witness ==
    /\ loadState \in {"fetching", "reading"}
    /\ last.op = "depth"
    /\ ops >= 1
    /\ ~mesh.isSet

\* The id most recently assigned to mesh.geometry: ids grow with creation
\* and every installed geometry is created by the handler that installs it.
LatestInstalled == CHOOSE x \in installedIds : \A y \in installedIds : y <= x

\* C11: an export hands the encoder the geometry on the mesh at that moment,
\* which is the one most recently installed (by load, depth change or
\* reset), and every file offered has content type application/sla.
C11_ExportHandsInstalled ==
    /\ \A i \in 1..Len(downloads) :
          /\ downloads[i].type = "application/sla"
          /\ downloads[i].handed.geometry \in installedIds
          /\ downloads[i].handed.verts = Verts(heap, downloads[i].handed.geometry)
    /\ (last.op = "export" /\ Len(downloads) = 0) => ~last.exported
    /\ last.exported
          => /\ Len(downloads) >= 1
             /\ downloads[Len(downloads)].handed.geometry = mesh.geometry
             /\ downloads[Len(downloads)].handed.geometry = LatestInstalled
             /\ downloads[Len(downloads)].handed.verts = Displayed

\* An export after a depth change that replaced the geometry as loaded.
C11_Witness ==
    /\ Loaded
    /\ last.exported
    /\ Len(downloads) >= 1
    /\ Cardinality(installedIds) >= 2
    /\ downloads[Len(downloads)].handed.verts # LoadedVerts
    /\ downloads[Len(downloads)].handed.verts = Displayed

LoadFailed == loadState = "failed"

LoadErrors == {"error: fetch", "error: read"}

\* C12: a failed fetch or parse is logged, leaves mesh and base geometry
\* unset, and stays failed: no later depth change, reset or export measures,
\* installs or offers anything.
C12_FailedLoadIsInert ==
    /\ [](LoadFailed
            => /\ \E i \in 1..Len(log) : log[i] \in LoadErrors
               /\ ~mesh.isSet
               /\ baseGeometry = NullId
               /\ heap = << >>
               /\ installedIds = {}
               /\ downloads = << >>
               /\ ~last.ran
               /\ ~last.installed
               /\ ~last.exported)
    /\ [][LoadFailed => LoadFailed']_vars

\* The load failed and, after that, an export was requested and refused.
C12_Witness ==
    /\ LoadFailed
    /\ Len(log) >= 2
    /\ log[1] \in LoadErrors
    /\ log[2] = "warn: No mesh to export"
    /\ last.op = "export"
    /\ ~last.exported
    /\ downloads = << >>

\* C13: a blur of the depth number input clamps the depth parameter to
\* [10, 300]: below 10 it becomes 10, above 300 it becomes 300, inside it is
\* unchanged; after a blur the depth parameter is within [10, 300].
C13_BlurClamps ==
    /\ [](last.op = "blur" => InDomain(depth))
    /\ [][(last'.op = "blur" /\ ops' = ops + 1)
            => depth' = Clamp(depth, R(DepthMin), R(DepthMax))]_vars

\* The input held 400 when it lost focus: the parameter became 300 and the
\* scene was re-scaled.
C13_Witness ==
    /\ last.op = "blur"
    /\ depth = R(DepthMax)
    /\ last.applied
    /\ Extent(Displayed, DEPTH_AXIS) = R(DepthMax)

\* C14: in every state a handler can start from, the geometry on the mesh
\* has not been released: disposing the old geometry and assigning the new
\* one are one step.
C14_InstalledNotReleased ==
    mesh.isSet => (mesh.geometry # NullId /\ ~heap[mesh.geometry].disposed)

\* An export started after earlier geometries had been replaced and released.
C14_Witness ==
    /\ Loaded
    /\ last.exported
    /\ \E id \in installedIds : heap[id].disposed
    /\ ~heap[mesh.geometry].disposed

\* The geometry as loaded, scaled to the current depth parameter.
DepthScaled ==
    ScaleVerts(LoadedVerts, R(1), R(1),
               RDiv(depth, Extent(LoadedVerts, DEPTH_AXIS)))

\* Vertex v of the depth-scaled geometry lies above 55% of its Y range and
\* farther than 25% of its X range from its X centre.
InExtrudedBand(v) ==
    LET minY == BoxMin(DepthScaled, 2)
        maxY == BoxMax(DepthScaled, 2)
        minX == BoxMin(DepthScaled, 1)
        maxX == BoxMax(DepthScaled, 1)
    IN  /\ RGt(RSub(v[2], minY), RMul(<<55, 100>>, RSub(maxY, minY)))
        /\ RGt(RAbs(RSub(v[1], RMul(RAdd(minX, maxX), Half))),
               RMul(<<25, 100>>, RSub(maxX, minX)))

\* (heightScale - 1) * (maxY - threshold), threshold at 55% of the Y range.
ExtrusionAmount ==
    LET minY == BoxMin(DepthScaled, 2)
        maxY == BoxMax(DepthScaled, 2)
        heightScale == RDiv(height, Extent(LoadedVerts, 2))
    IN  RMul(RSub(heightScale, R(1)), RMul(<<45, 100>>, RSub(maxY, minY)))

ReactProgram == variant \in {"react", "height"}

LoadCompletes == loadState # "done" /\ loadState' = "done"

\* C16: in the React programs the completion of the load applies no depth
\* value: it leaves the parameters alone and puts the unscaled geometry as
\* loaded on the mesh; afterwards the geometry on the mesh changes only in a
\* step that changes the depth (or height) parameter, so an event that sets
\* the value it already has (Reset at depth 10) changes nothing.
C16_DepthAppliedOnChangeOnly ==
    /\ [][(ReactProgram /\ LoadCompletes)
            => /\ depth' = depth
               /\ Verts(heap', mesh'.geometry) = LoadedVerts]_vars
    /\ [][(ReactProgram /\ Loaded /\ depth' = depth /\ height' = height)
            => (mesh' = mesh /\ heap' = heap)]_vars

\* Reset was pressed after the load with depth still 10: nothing was scaled,
\* and the displayed depth extent is the asset's, not 10.
C16_Witness ==
    /\ variant = "react"
    /\ Loaded
    /\ last.op = "reset"
    /\ ~last.ran
    /\ depth = R(DefaultDepth)
    /\ installedIds = {mesh.geometry}
    /\ Displayed = LoadedVerts
    /\ Extent(Displayed, DEPTH_AXIS) = R(50)

\* C17: in every state between two handlers the mesh and the base geometry
\* are both unset or both set, so the depth listener's reference is the base
\* geometry (never the geometry on the mesh) and the extent it divides by is
\* the base geometry's.
C17_MeshAndBaseTogether ==
    /\ mesh.isSet <=> baseGeometry # NullId
    /\ mesh.isSet =>
          /\ scaleReference(mesh, baseGeometry) = baseGeometry
          /\ baseGeometry # mesh.geometry
    /\ (variant = "dom" /\ last.op = "depth" /\ last.ran)
          => last.divisor = Extent(BaseVerts, DEPTH_AXIS)

\* The depth listener ran on a mesh whose geometry had been replaced before
\* (load, an earlier change, this change) and measured the base geometry.
C17_Witness ==
    /\ variant = "dom"
    /\ last.op = "depth"
    /\ last.ran
    /\ last.divided
    /\ Cardinality(installedIds) >= 3
    /\ baseGeometry # NullId
    /\ last.divisor = Extent(BaseVerts, DEPTH_AXIS)
    /\ Extent(Displayed, DEPTH_AXIS) # Extent(BaseVerts, DEPTH_AXIS)

MinZ == BoxMin(Displayed, DEPTH_AXIS)

MaxZ == BoxMax(Displayed, DEPTH_AXIS)

\* C18 as stated: the displayed box is centred on the depth axis and, once a
\* target T has been applied, spans from -T/2 to T/2.
C18_CentredAtHalfTarget ==
    /\ Loaded => MinZ = RNeg(MaxZ)
    /\ (Loaded /\ last.applied)
          => /\ MinZ = RNeg(RMul(last.target, Half))
             /\ MaxZ = RMul(last.target, Half)

\* C18: after load and any sequence of depth changes and resets the
\* displayed bounding box is centred on the depth axis, min Z = -max Z; once
\* a target T has been applied to a base geometry of positive depth extent
\* it spans from -|T|/2 to |T|/2 (a base of zero depth extent is left as it
\* is, and a negative target mirrors the geometry).
C18_CentredOnDepthAxis ==
    /\ Loaded => MinZ = RNeg(MaxZ)
    /\ (Loaded /\ last.applied /\ RGt(Extent(LoadedVerts, DEPTH_AXIS), R(0)))
          => /\ MinZ = RNeg(RMul(RAbs(last.target), Half))
             /\ MaxZ = RMul(RAbs(last.target), Half)

\* An asset whose box is not centred in the file (z from 3 to 28), scaled to
\* 300 after earlier events: the box spans -150 .. 150.
C18_Witness ==
    /\ Loaded
    /\ asset = AssetOdd
    /\ BoxMin(asset, DEPTH_AXIS) # RNeg(BoxMax(asset, DEPTH_AXIS))
    /\ last.applied
    /\ last.target = R(300)
    /\ Cardinality(installedIds) >= 3
    /\ MinZ = R(-150)
    /\ MaxZ = R(150)

=============================================================================
